---- MODULE Spec2Model ----
(***************************************************************************)
(* RunRate: keyword rules + text classifier categorization of financial    *)
(* transactions (utils/data_processor.py, utils/ml_categorizer.py) and the *)
(* category store that owns the keyword document                           *)
(* (utils/category_manager.py), driven by the Streamlit script main.py,    *)
(* with the budget table of utils/budget_manager.py.                       *)
(*                                                                         *)
(* Text is modelled as a sequence of one-character strings, so that        *)
(* str.lower(), str.strip() and the substring test `keyword in x` are      *)
(* computed and not assumed.  A Python dict is a sequence of               *)
(* [name, keywords] entries in insertion order, which is the order         *)
(* dict.items() iterates in and json.dump / json.load preserve.            *)
(***************************************************************************)
EXTENDS Integers, Sequences, FiniteSets, TLC

VARIABLES
    document,      \* assets/default_categories.json: the persisted mapping
    cmCategories,  \* CategoryManager.categories
    dpCategories,  \* DataProcessor.categories
    model,         \* DataProcessor.ml_categorizer.model (the sklearn pipeline)
    artifact,      \* assets/ml_model.joblib: the persisted pipeline
    forest,        \* how a fitted pipeline scores a text (fixed, unknown to the caller)
    df,            \* the session's working frame (st.session_state.files_data[..]['df'])
    budgets,       \* the rows of the budgets table, in insertion order
    writable,      \* whether the durable stores (the files, the database) can be reached
    last           \* the operation that ran last, its arguments and what it returned

vars == <<document, cmCategories, dpCategories, model, artifact, forest, df,
          budgets, writable, last>>

-----------------------------------------------------------------------------
(* Text *)

UpperLetters == <<"A","B","C","D","E","F","G","H","I","J","K","L","M",
                  "N","O","P","Q","R","S","T","U","V","W","X","Y","Z">>
LowerLetters == <<"a","b","c","d","e","f","g","h","i","j","k","l","m",
                  "n","o","p","q","r","s","t","u","v","w","x","y","z">>

\* str.lower() on one character
LowerChar(c) ==
    IF \E i \in 1..Len(UpperLetters) : UpperLetters[i] = c
    THEN LowerLetters[CHOOSE i \in 1..Len(UpperLetters) : UpperLetters[i] = c]
    ELSE c

\* str.lower()
Lower(s) == [i \in 1..Len(s) |-> LowerChar(s[i])]

IsSpace(c) == c \in {" ", "\t", "\n"}

\* str.strip(): leading and trailing whitespace removed
Strip(s) ==
    LET keep == {i \in 1..Len(s) : ~IsSpace(s[i])}
    IN  IF keep = {} THEN <<>>
        ELSE LET lo == CHOOSE i \in keep : \A j \in keep : i <= j
                 hi == CHOOSE i \in keep : \A j \in keep : j <= i
             IN  SubSeq(s, lo, hi)

\* Python's `k in x` on two strings: k occurs in x as a substring
Contains(x, k) ==
    \E i \in 0..(Len(x) - Len(k)) : SubSeq(x, i + 1, i + Len(k)) = k

\* Python's `v in list`
InList(v, list) == \E i \in 1..Len(list) : list[i] = v

Rep(v, n) == [i \in 1..n |-> v]

\* the category labels the code names
Uncategorized == <<"U","n","c","a","t","e","g","o","r","i","z","e","d">>
Other == <<"O","t","h","e","r">>
FoodDining == <<"F","o","o","d"," ","&"," ","D","i","n","i","n","g">>
Transportation == <<"T","r","a","n","s","p","o","r","t","a","t","i","o","n">>
Shopping == <<"S","h","o","p","p","i","n","g">>
BillsUtilities == <<"B","i","l","l","s"," ","&"," ","U","t","i","l","i","t","i","e","s">>
Entertainment == <<"E","n","t","e","r","t","a","i","n","m","e","n","t">>
Healthcare == <<"H","e","a","l","t","h","c","a","r","e">>
Travel == <<"T","r","a","v","e","l">>

\* CategoryManager.default_categories
default_categories ==
    {FoodDining, Transportation, Shopping, BillsUtilities, Entertainment,
     Healthcare, Travel, Other}

-----------------------------------------------------------------------------
(* dict[str, list[str]] in insertion order *)

Keys(d) == {d[i].name : i \in 1..Len(d)}

\* `name in d`
HasKey(d, name) == \E i \in 1..Len(d) : d[i].name = name

IndexOf(d, name) == CHOOSE i \in 1..Len(d) : d[i].name = name

\* d[name]
Lookup(d, name) == d[IndexOf(d, name)].keywords

\* d[name] = keywords, for a name that is not a key yet: appended last
Insert(d, name, keywords) == Append(d, [name |-> name, keywords |-> keywords])

\* del d[name]
Delete(d, name) ==
    LET i == IndexOf(d, name)
    IN  SubSeq(d, 1, i - 1) \o SubSeq(d, i + 1, Len(d))

\* d[name] replaced in place: the position of the key is kept
Replace(d, name, keywords) ==
    [d EXCEPT ![IndexOf(d, name)].keywords = keywords]

\* list.remove(v): the first occurrence of v is removed
ListRemove(list, v) ==
    LET i == CHOOSE i \in 1..Len(list) :
                 list[i] = v /\ \A j \in 1..(i - 1) : list[j] # v
    IN  SubSeq(list, 1, i - 1) \o SubSeq(list, i + 1, Len(list))

\* get_all_categories()
get_all_categories == [i \in 1..Len(cmCategories) |-> cmCategories[i].name]

\* is_default_category(name)
is_default_category(name) == name \in default_categories

-----------------------------------------------------------------------------
(* What an operation reports: its name, its arguments and its result *)

NoText == <<>>

\* get_budget_status was not the operation
NoStatus ==
    [has_budget |-> FALSE, budget_amount |-> 0, spent |-> 0, remaining |-> 0,
     percentage_used |-> [num |-> 0, den |-> 1]]

\* raised: the operation ended in an exception that reached its caller;
\* untouched: the frame the caller passed is after the call as it was before
Report(op, cat, kw, ok, msg) ==
    [op |-> op, cat |-> cat, kw |-> kw, ok |-> ok, msg |-> msg, raised |-> FALSE,
     trainCalls |-> 0, trainOk |-> FALSE, predictCalls |-> 0,
     texts |-> <<>>, labels |-> <<>>, probas |-> <<>>,
     untouched |-> TRUE, amount |-> 0, period |-> "", status |-> NoStatus]

-----------------------------------------------------------------------------
(* CategoryManager: utils/category_manager.py *)

MaxNameLen == 50

\* bounds of the exploration: how large the mapping may grow
MaxCategories == 3
MaxKeywords == 2

\* _save_categories(): json.dump({'categories': self.categories}) into the file
\* opened for writing; intact says the file holds a whole JSON document
SavedCategories(categories) == [intact |-> TRUE, categories |-> categories]

\* the file after open(.., 'w') truncated it and the dump did not complete
TornDocument == [intact |-> FALSE, categories |-> <<>>]

\* _load_categories() / _load_default_categories(): json.load(f)['categories']
LoadedCategories(doc) == doc.categories

\* add_category(category_name, keywords) -> (ok, message, categories afterwards)
add_category(categories, category_name, keywords) ==
    IF Strip(category_name) = <<>>
    THEN [ok |-> FALSE, msg |-> "Category name cannot be empty", categories |-> categories]
    ELSE IF HasKey(categories, category_name)
    THEN [ok |-> FALSE, msg |-> "Category already exists", categories |-> categories]
    ELSE IF Len(category_name) > MaxNameLen
    THEN [ok |-> FALSE, msg |-> "Category name too long (max 50 characters)",
          categories |-> categories]
    ELSE [ok |-> TRUE, msg |-> "Category added successfully",
          categories |-> Insert(categories, category_name, keywords)]

\* (a variant without the default-category test)
remove_category_unprotected(categories, category_name) ==
    IF HasKey(categories, category_name)
    THEN [ok |-> TRUE, msg |-> "Category removed successfully",
          categories |-> Delete(categories, category_name)]
    ELSE [ok |-> FALSE, msg |-> "Category not found", categories |-> categories]

\* remove_category(category_name)
remove_category(categories, category_name) ==
    IF category_name \in default_categories
    THEN [ok |-> FALSE, msg |-> "Cannot remove default category", categories |-> categories]
    ELSE IF HasKey(categories, category_name)
    THEN [ok |-> TRUE, msg |-> "Category removed successfully",
          categories |-> Delete(categories, category_name)]
    ELSE [ok |-> FALSE, msg |-> "Category not found", categories |-> categories]

\* add_keyword(category, keyword): the duplicate test reads the keyword as given,
\* the list receives keyword.strip().lower()
add_keyword(categories, category, keyword) ==
    IF Strip(keyword) = <<>>
    THEN [ok |-> FALSE, msg |-> "Keyword cannot be empty", categories |-> categories]
    ELSE IF HasKey(categories, category)
    THEN IF InList(keyword, Lookup(categories, category))
         THEN [ok |-> FALSE, msg |-> "Keyword already exists in category",
               categories |-> categories]
         ELSE [ok |-> TRUE, msg |-> "Keyword added successfully",
               categories |-> Replace(categories, category,
                     Append(Lookup(categories, category), Lower(Strip(keyword))))]
    ELSE [ok |-> FALSE, msg |-> "Category not found", categories |-> categories]

\* remove_keyword(category, keyword)
remove_keyword(categories, category, keyword) ==
    IF HasKey(categories, category) /\ InList(keyword, Lookup(categories, category))
    THEN [ok |-> TRUE, msg |-> "Keyword removed successfully",
          categories |-> Replace(categories, category,
                ListRemove(Lookup(categories, category), keyword))]
    ELSE [ok |-> FALSE, msg |-> "Keyword not found", categories |-> categories]

\* (a variant that never calls _save_categories)
StoreStepUnsaved(op, cat, kw, r) ==
    /\ cmCategories' = r.categories
    /\ document' = document
    /\ last' = Report(op, cat, kw, r.ok, r.msg)
    /\ UNCHANGED <<dpCategories, model, artifact, forest, df, budgets, writable>>

\* A store operation as a step: the mapping is changed, then saved.  When the
\* file cannot be written _save_categories raises out of the operation, after the
\* mapping was changed; the file is untouched or torn.
StoreStep(op, cat, kw, r) ==
    /\ cmCategories' = r.categories
    /\ IF r.ok /\ ~writable
       THEN /\ document' \in {document, TornDocument}
            /\ last' = [Report(op, cat, kw, FALSE, "") EXCEPT !.raised = TRUE]
       ELSE /\ document' = IF r.ok THEN SavedCategories(r.categories) ELSE document
            /\ last' = Report(op, cat, kw, r.ok, r.msg)
    /\ UNCHANGED <<dpCategories, model, artifact, forest, df, budgets, writable>>

AddCategory(category_name, keywords) ==
    LET r == add_category(cmCategories, category_name, keywords)
    IN  /\ r.ok => Len(cmCategories) < MaxCategories
        /\ StoreStep("add_category", category_name, keywords, r)

RemoveCategory(category_name) ==
    StoreStep("remove_category", category_name, NoText,
              remove_category(cmCategories, category_name))

AddKeyword(category, keyword) ==
    LET r == add_keyword(cmCategories, category, keyword)
    IN  /\ r.ok => Len(Lookup(cmCategories, category)) < MaxKeywords
        /\ StoreStep("add_keyword", category, keyword, r)

RemoveKeyword(category, keyword) ==
    StoreStep("remove_keyword", category, keyword,
              remove_keyword(cmCategories, category, keyword))

-----------------------------------------------------------------------------
(* MLCategorizer: utils/ml_categorizer.py *)

\* self.min_samples_per_category
MinSamplesPerCategory == 5
\* `if len(df) < 10` in train
MinTrainingSamples == 10

\* the pipeline as __init__ builds it: nothing fitted
Unfitted == [fitted |-> FALSE, X |-> <<>>, y |-> <<>>]

\* the pipeline after model.fit(X, y)
Fit(X, y) == [fitted |-> TRUE, X |-> X, y |-> y]

NoArtifact == [exists |-> FALSE, pipeline |-> Unfitted]

\* _save_model(): joblib.dump(self.model, self.model_path)
SavedModel(m) == [exists |-> TRUE, pipeline |-> m]

\* the file exists and joblib.load raises on it
CorruptArtifact == [exists |-> TRUE, corrupt |-> TRUE]

\* (a variant of the constructor that loads nothing)
LoadedNothing(a) == Unfitted

\* __init__ then _load_model(): the persisted pipeline when the file exists and
\* loads; the pipeline built by __init__ when there is no file or the load raises
LoadedModel(a) ==
    IF a.exists /\ "pipeline" \in DOMAIN a THEN a.pipeline ELSE Unfitted

\* value_counts()[label]
CountOf(labels, label) == Cardinality({i \in 1..Len(labels) : labels[i] = label})

\* the rows train keeps: those whose label has at least min_samples_per_category rows
ValidRowsAll(labels) == 1..Len(labels)
ValidRows(labels) ==
    {i \in 1..Len(labels) : CountOf(labels, labels[i]) >= MinSamplesPerCategory}

\* the elements of s at the positions in keep, in order
RECURSIVE Pick(_, _, _)
Pick(s, keep, i) ==
    IF i > Len(s) THEN <<>>
    ELSE (IF i \in keep THEN <<s[i]>> ELSE <<>>) \o Pick(s, keep, i + 1)

\* (a variant that fits before it counts: what C5 and C6 rule out)
train_fits_first(m, a, descriptions, categories) ==
    IF Len(descriptions) # Len(categories)
    THEN [ok |-> FALSE, raised |-> FALSE, model |-> m, artifact |-> a]
    ELSE LET keep == ValidRows(categories)
             fitted == Fit(Pick(descriptions, keep, 1), Pick(categories, keep, 1))
         IN  IF Cardinality(keep) < MinTrainingSamples
             THEN [ok |-> FALSE, raised |-> FALSE, model |-> fitted, artifact |-> a]
             ELSE [ok |-> TRUE, raised |-> FALSE, model |-> fitted,
                   artifact |-> SavedModel(fitted)]

\* train(descriptions, categories) -> (ok, pipeline afterwards, artifact afterwards).
\* The pipeline is fitted in place before _save_model runs; when joblib.dump
\* raises, train raises with the pipeline fitted.
train(m, a, descriptions, categories) ==
    IF Len(descriptions) # Len(categories)
    THEN [ok |-> FALSE, raised |-> FALSE, model |-> m, artifact |-> a]
    ELSE LET keep == ValidRows(categories)
         IN  IF Cardinality(keep) < MinTrainingSamples
             THEN [ok |-> FALSE, raised |-> FALSE, model |-> m, artifact |-> a]
             ELSE LET fitted == Fit(Pick(descriptions, keep, 1), Pick(categories, keep, 1))
                  IN  IF writable
                      THEN [ok |-> TRUE, raised |-> FALSE, model |-> fitted,
                            artifact |-> SavedModel(fitted)]
                      ELSE [ok |-> FALSE, raised |-> TRUE, model |-> fitted,
                            artifact |-> a]

\* the file after a call: what was saved, or after a dump that raised the file
\* as it was or a corrupt one
ArtifactAfter(r) ==
    IF r.raised THEN {r.artifact, CorruptArtifact} ELSE {r.artifact}

\* classes_ of a fitted pipeline: the distinct labels it was fitted on
RECURSIVE Classes(_, _)
Classes(y, i) ==
    IF i > Len(y) THEN <<>>
    ELSE (IF \E j \in 1..(i - 1) : y[j] = y[i] THEN <<>> ELSE <<y[i]>>)
         \o Classes(y, i + 1)

\* what the fitted pipeline answers for one text: one of its classes and the
\* largest class probability, in tenths (a single class has probability 1.0)
Score(m, text) ==
    LET classes == Classes(m.y, 1)
        s == forest[text]
    IN  [label |-> classes[(s.pick % Len(classes)) + 1],
         proba |-> IF Len(classes) = 1 THEN 10 ELSE s.proba]

\* (a variant whose handler answers 'Uncategorized')
predict_uncategorized(m, descriptions) ==
    IF m.fitted
    THEN [i \in 1..Len(descriptions) |-> Score(m, descriptions[i]).label]
    ELSE [i \in 1..Len(descriptions) |-> Uncategorized]

\* predict(descriptions): the unfitted pipeline raises, and the handler answers 'Other'
predict(m, descriptions) ==
    IF m.fitted
    THEN [i \in 1..Len(descriptions) |-> Score(m, descriptions[i]).label]
    ELSE [i \in 1..Len(descriptions) |-> Other]

\* predict_proba(descriptions), in tenths: the handler answers 0.0
predict_proba(m, descriptions) ==
    IF m.fitted
    THEN [i \in 1..Len(descriptions) |-> Score(m, descriptions[i]).proba]
    ELSE [i \in 1..Len(descriptions) |-> 0]

-----------------------------------------------------------------------------
(* BudgetManager: utils/budget_manager.py.  The budgets table is a sequence *)
(* of [category, amount, period] rows; amounts are kept in cents.           *)

\* category VARCHAR(50)
MaxBudgetCategoryLen == 50

\* A float amount, given in tenths of a cent, as DECIMAL(10,2) stores it: rounded
\* to the cent, halves away from zero (amounts stay below the eight digits the
\* column takes)
ToCents(mills) ==
    IF mills >= 0 THEN (mills + 5) \div 10 ELSE 0 - ((5 - mills) \div 10)

\* a quotient n/d with d > 0, and min() of two of them
Ratio(n, d) == [num |-> n, den |-> d]
RatioMin(p, q) == IF p.num * q.den <= q.num * p.den THEN p ELSE q

HasBudget(table, category) == \E i \in 1..Len(table) : table[i].category = category
BudgetRow(table, category) ==
    table[CHOOSE i \in 1..Len(table) : table[i].category = category]

\* _init_db(): DROP TABLE IF EXISTS budgets, then CREATE TABLE budgets; an
\* exception is printed and the table is left as it was
init_db(table) == IF writable THEN <<>> ELSE table

\* set_budget(category, amount, period): INSERT .. ON CONFLICT (category) DO UPDATE;
\* a database error is caught and reported as a failure
set_budget(table, category, amount, period) ==
    LET cents == ToCents(amount)
    IN  IF \/ ~writable
           \/ Len(category) > MaxBudgetCategoryLen
        THEN [ok |-> FALSE, table |-> table]
        ELSE IF HasBudget(table, category)
        THEN [ok |-> TRUE,
              table |-> [i \in 1..Len(table) |->
                            IF table[i].category = category
                            THEN [table[i] EXCEPT !.amount = cents, !.period = period]
                            ELSE table[i]]]
        ELSE [ok |-> TRUE,
              table |-> Append(table, [category |-> category, amount |-> cents,
                                       period |-> period])]

\* get_budget(category): the row as a dict, or None (found = FALSE), also on an error
get_budget(table, category) ==
    IF writable /\ HasBudget(table, category)
    THEN [found |-> TRUE, category |-> category,
          amount |-> BudgetRow(table, category).amount,
          period |-> BudgetRow(table, category).period]
    ELSE [found |-> FALSE, category |-> category, amount |-> 0, period |-> ""]

\* get_all_budgets(): every row, or [] on an error
get_all_budgets(table) == IF writable THEN table ELSE <<>>

\* remove_budget(category): DELETE, committed when a row was deleted
remove_budget(table, category) ==
    IF writable /\ HasBudget(table, category)
    THEN [ok |-> TRUE,
          table |-> LET i == CHOOSE i \in 1..Len(table) : table[i].category = category
                    IN  SubSeq(table, 1, i - 1) \o SubSeq(table, i + 1, Len(table))]
    ELSE [ok |-> FALSE, table |-> table]

\* (a variant that reports the spending as what remains)
get_budget_status_spent(table, category, current_spending) ==
    [has_budget |-> get_budget(table, category).found,
     budget_amount |-> get_budget(table, category).amount,
     spent |-> current_spending, remaining |-> current_spending,
     percentage_used |-> Ratio(100, 1)]

\* get_budget_status(category, current_spending), spending in cents
get_budget_status(table, category, current_spending) ==
    LET budget == get_budget(table, category)
    IN  IF ~budget.found
        THEN [has_budget |-> FALSE, budget_amount |-> 0, spent |-> current_spending,
              remaining |-> 0,
              percentage_used |-> IF current_spending > 0 THEN Ratio(100, 1)
                                  ELSE Ratio(0, 1)]
        ELSE LET remaining == budget.amount - current_spending
                 percentage_used ==
                     IF budget.amount > 0
                     THEN Ratio(current_spending * 100, budget.amount)
                     ELSE Ratio(100, 1)
             IN  [has_budget |-> TRUE, budget_amount |-> budget.amount,
                  spent |-> current_spending, remaining |-> remaining,
                  percentage_used |-> RatioMin(percentage_used, Ratio(100, 1))]

SetBudget(category, amount, period) ==
    LET r == set_budget(budgets, category, amount, period)
    IN  /\ budgets' = r.table
        /\ last' = [Report("set_budget", category, NoText, r.ok, "")
                      EXCEPT !.amount = amount, !.period = period]
        /\ UNCHANGED <<document, cmCategories, dpCategories, model, artifact, forest,
                       df, writable>>

RemoveBudget(category) ==
    LET r == remove_budget(budgets, category)
    IN  /\ budgets' = r.table
        /\ last' = Report("remove_budget", category, NoText, r.ok, "")
        /\ UNCHANGED <<document, cmCategories, dpCategories, model, artifact, forest,
                       df, writable>>

GetBudgetStatus(category, current_spending) ==
    /\ last' = [Report("get_budget_status", category, NoText, TRUE, "")
                  EXCEPT !.amount = current_spending,
                         !.status = get_budget_status(budgets, category,
                                                      current_spending)]
    /\ UNCHANGED <<document, cmCategories, dpCategories, model, artifact, forest, df,
                   budgets, writable>>

\* the durable stores become unreachable, or reachable again
Storage(reachable) ==
    /\ writable # reachable
    /\ writable' = reachable
    /\ last' = Report("storage", NoText, NoText, reachable, "")
    /\ UNCHANGED <<document, cmCategories, dpCategories, model, artifact, forest, df,
                   budgets>>

-----------------------------------------------------------------------------
(* DataProcessor: utils/data_processor.py *)

\* `if len(categorized_df) >= 10`
MinCategorizedRows == 10
\* `if prob > 0.7`, in tenths
ConfidenceThreshold == 7

\* any(keyword in x for keyword in keywords), x the lower-cased description
AnyKeyword(keywords, x) == \E k \in 1..Len(keywords) : Contains(x, keywords[k])

\* the rule loop: every category in mapping order overwrites the rows it matches
RECURSIVE ApplyRules(_, _, _)
ApplyRules(categories, i, frame) ==
    IF i > Len(categories) THEN frame
    ELSE ApplyRules(categories, i + 1,
            [r \in 1..Len(frame) |->
                IF AnyKeyword(categories[i].keywords, Lower(frame[r].Description))
                THEN [frame[r] EXCEPT !.Category = categories[i].name]
                ELSE frame[r]])

Descriptions(frame) == [r \in 1..Len(frame) |-> frame[r].Description]
Categories(frame) == [r \in 1..Len(frame) |-> frame[r].Category]

\* the rows of uncategorized_mask
UncategorizedRows(frame) == {r \in 1..Len(frame) : frame[r].Category = Uncategorized}

\* how many rows of `rows` come before row r, plus one: r's place in df[mask].index
Place(rows, r) == Cardinality({q \in rows : q <= r})

\* (a variant that accepts a probability equal to the threshold)
ApplyPredictionsAtLeast(frame, rows, labels, probas) ==
    [r \in 1..Len(frame) |->
        IF r \in rows
        THEN [frame[r] EXCEPT !.Category =
                 IF probas[Place(rows, r)] >= ConfidenceThreshold
                 THEN labels[Place(rows, r)]
                 ELSE Other]
        ELSE frame[r]]

\* the loop that applies predictions: the idx-th (label, probability) goes to the
\* idx-th row of the mask
ApplyPredictions(frame, rows, labels, probas) ==
    [r \in 1..Len(frame) |->
        IF r \in rows
        THEN [frame[r] EXCEPT !.Category =
                 IF probas[Place(rows, r)] > ConfidenceThreshold
                 THEN labels[Place(rows, r)]
                 ELSE Other]
        ELSE frame[r]]

\* `if uncategorized_mask.any()` and `if len(categorized_df) >= 10`
ShouldClassifyAlways(rows, rest) == rows # {}
ShouldClassify(rows, rest) ==
    rows # {} /\ Cardinality(rest) >= MinCategorizedRows

\* (a variant that works on the caller's frame)
df_same(frame) == [rows |-> frame, shared |-> TRUE]

\* df.copy(): a new frame with the same rows, sharing nothing with the caller's
df_copy(frame) == [rows |-> frame, shared |-> FALSE]

\* categorize_transactions(df) -> the new frame, the caller's frame as the call
\* leaves it, and what happened to the classifier.  When train raises, the call
\* raises: nothing is returned and nothing is predicted.
categorize_transactions(categories, m, a, frame) ==
    LET work == df_copy(frame)
        ruled == ApplyRules(categories, 1, work.rows)
        rows == UncategorizedRows(ruled)
        rest == (1..Len(ruled)) \ rows
        idle == [df |-> ruled, given |-> IF work.shared THEN ruled ELSE frame,
                 raised |-> FALSE, model |-> m, artifact |-> a,
                 trainCalls |-> 0, trainOk |-> FALSE, predictCalls |-> 0,
                 texts |-> <<>>, labels |-> <<>>, probas |-> <<>>]
    IN  IF ShouldClassify(rows, rest)
        THEN LET t == train(m, a, Pick(Descriptions(ruled), rest, 1),
                                  Pick(Categories(ruled), rest, 1))
                 texts == Pick(Descriptions(ruled), rows, 1)
                 labels == predict(t.model, texts)
                 probas == predict_proba(t.model, texts)
                 done == ApplyPredictions(ruled, rows, labels, probas)
             IN  IF t.raised
                 THEN [idle EXCEPT !.df = frame, !.raised = TRUE, !.model = t.model,
                                   !.artifact = t.artifact, !.trainCalls = 1]
                 ELSE [df |-> done, given |-> IF work.shared THEN done ELSE frame,
                       raised |-> FALSE, model |-> t.model, artifact |-> t.artifact,
                       trainCalls |-> 1, trainOk |-> t.ok, predictCalls |-> 2,
                       texts |-> texts, labels |-> labels, probas |-> probas]
        ELSE idle

\* pd.to_numeric(.., errors='coerce'): a cell that is no number becomes NaN
to_numeric(cell) ==
    IF cell.numeric THEN [nan |-> FALSE, value |-> cell.value]
    ELSE [nan |-> TRUE, value |-> 0]

\* process_upload: the rows of the file (Date a day number), the Amount made
\* numeric, each with Category 'Uncategorized'
process_upload(file) ==
    [r \in 1..Len(file) |->
        [Date |-> file[r].Date, Description |-> file[r].Description,
         Amount |-> to_numeric(file[r].Amount), Category |-> Uncategorized]]

\* update_transaction_category(df, index, new_category); index counts from 0
update_transaction_category(frame, index, new_category) ==
    [frame EXCEPT ![index + 1].Category = new_category]

ProcessUpload(file) ==
    /\ df' = process_upload(file)
    /\ last' = Report("process_upload", NoText, NoText, TRUE, "Success")
    /\ UNCHANGED <<document, cmCategories, dpCategories, model, artifact, forest,
                   budgets, writable>>

Categorize ==
    LET c == categorize_transactions(dpCategories, model, artifact, df)
    IN  /\ df' = c.df
        /\ model' = c.model
        /\ artifact' \in ArtifactAfter(c)
        /\ last' = [Report("categorize_transactions", NoText, NoText, ~c.raised, "")
                      EXCEPT !.trainCalls = c.trainCalls, !.trainOk = c.trainOk,
                             !.predictCalls = c.predictCalls, !.texts = c.texts,
                             !.labels = c.labels, !.probas = c.probas,
                             !.raised = c.raised, !.untouched = (c.given = df)]
        /\ UNCHANGED <<document, cmCategories, dpCategories, forest, budgets, writable>>

UpdateTransactionCategory(index, new_category) ==
    /\ index + 1 \in 1..Len(df)
    /\ df' = update_transaction_category(df, index, new_category)
    /\ last' = Report("update_transaction_category", new_category, NoText, TRUE, "")
    /\ UNCHANGED <<document, cmCategories, dpCategories, model, artifact, forest,
                   budgets, writable>>

\* main.py runs top to bottom on every interaction: the managers are built again
\* from what is persisted, the session's frame is kept.  On a torn document
\* json.load raises in DataProcessor() and the script stops there.
Rerun ==
    /\ document.intact
    /\ dpCategories' = LoadedCategories(document)
    /\ model' = LoadedModel(artifact)
    /\ cmCategories' = LoadedCategories(document)
    /\ budgets' = init_db(budgets)
    /\ last' = Report("rerun", NoText, NoText, TRUE, "")
    /\ UNCHANGED <<document, artifact, forest, df, writable>>

\* MLCategorizer.train called on its own
Train(descriptions, categories) ==
    LET t == train(model, artifact, descriptions, categories)
    IN  /\ model' = t.model
        /\ artifact' \in ArtifactAfter(t)
        /\ last' = [Report("train", NoText, NoText, t.ok, "")
                      EXCEPT !.trainCalls = 1, !.trainOk = t.ok, !.raised = t.raised,
                             !.texts = descriptions, !.labels = categories]
        /\ UNCHANGED <<document, cmCategories, dpCategories, forest, df,
                       budgets, writable>>

\* the persisted pipeline is damaged on disk: the file stays, joblib.load raises
ArtifactDamaged ==
    /\ LoadedModel(artifact).fitted
    /\ artifact' = CorruptArtifact
    /\ last' = Report("artifact_damaged", NoText, NoText, TRUE, "")
    /\ UNCHANGED <<document, cmCategories, dpCategories, model, forest, df,
                   budgets, writable>>

\* MLCategorizer.predict and predict_proba called on their own
Predict(descriptions) ==
    /\ last' = [Report("predict", NoText, NoText, TRUE, "")
                  EXCEPT !.predictCalls = 2, !.texts = descriptions,
                         !.labels = predict(model, descriptions),
                         !.probas = predict_proba(model, descriptions)]
    /\ UNCHANGED <<document, cmCategories, dpCategories, model, artifact, forest, df,
                   budgets, writable>>

-----------------------------------------------------------------------------
(* The inputs explored *)

tA == <<"A">>
tAb == <<"A", "b">>
tb == <<"b">>
tc == <<"c">>
td == <<"d">>
Texts == {tA, tAb, tb, tc, td}

ka == <<"a">>
kb == <<"b">>
kc == <<"c">>
kd == <<"d">>
kab == <<"a", "b">>
Coffee == <<"C","o","f","f","e","e">>
LongName == Rep("x", MaxNameLen + 1)

\* the document the application ships with: lower-case keywords, none twice
DefaultDocument ==
    [intact |-> TRUE,
     categories |-> << [name |-> FoodDining, keywords |-> <<ka>>],
                       [name |-> Shopping, keywords |-> <<kb>>] >>]

\* candidate behaviours of a fitted forest: class picked and largest probability
PlainForest == [t \in Texts |-> [pick |-> 0, proba |-> 8]]
Forests ==
    { PlainForest,
      [t \in Texts |-> IF t = tc THEN [pick |-> 1, proba |-> 7]
                       ELSE IF t = td THEN [pick |-> 0, proba |-> 9]
                       ELSE [pick |-> 1, proba |-> 8]] }

\* the longest run of free rows that ends an uploaded file
MaxTail == 1

RECURSIVE SeqsUpTo(_, _)
SeqsUpTo(S, n) ==
    IF n = 0 THEN {<<>>}
    ELSE LET shorter == SeqsUpTo(S, n - 1)
         IN  shorter \cup {Append(q, x) : q \in shorter, x \in S}

\* uploaded files: a body around the thresholds of 10 rows and 5 rows per label,
\* then a short tail
Bodies ==
    { Rep(tA, 9), Rep(tA, 10), Rep(tA, 6) \o Rep(tb, 4), Rep(tA, 5) \o Rep(tb, 5),
      <<tc>> \o Rep(tA, 5) \o Rep(tb, 5) }

\* a file with these descriptions: one row a day, amounts of both signs, the
\* amount of the second row not a number
FileOf(descriptions) ==
    [r \in 1..Len(descriptions) |->
        [Date |-> r, Description |-> descriptions[r],
         Amount |-> [numeric |-> r # 2, value |-> 10 * r - 15]]]

\* the tails: free rows that match no shipped rule, or one row that matches two
Tails == SeqsUpTo({td}, MaxTail) \cup {<<tAb>>}

UploadFrames == {FileOf(b \o t) : b \in Bodies, t \in Tails}

EditCategories == {Travel, Uncategorized}
EditIndexes == {Len(df) - 1}

-----------------------------------------------------------------------------
(* One session: files are uploaded and categorized, rows are edited, a     *)
(* category is added in the store, and the script runs again               *)

\* a process started on the shipped document, with no persisted pipeline
Init ==
    /\ document = DefaultDocument
    /\ cmCategories = LoadedCategories(document)
    /\ dpCategories = LoadedCategories(document)
    /\ model = Unfitted
    /\ artifact = NoArtifact
    /\ forest \in Forests
    /\ df = <<>>
    /\ budgets = <<>>
    /\ writable = TRUE
    /\ last = Report("init", NoText, NoText, TRUE, "")

Next ==
    \/ \E f \in UploadFrames : ProcessUpload(f)
    \/ Categorize
    \/ \E i \in EditIndexes, c \in EditCategories : UpdateTransactionCategory(i, c)
    \/ AddCategory(Uncategorized, <<kd, kab>>)
    \/ Rerun

Spec == Init /\ [][Next]_vars

-----------------------------------------------------------------------------
(* The category store on its own *)

StoreNames == {Coffee, FoodDining, <<" ">>, LongName}
StoreKeywordLists == {<<kc>>, <<kc, kc>>, << <<" ">> >>}
StoreCategories == {Coffee, FoodDining, Travel}
StoreKeywords == {kc, <<"A">>, <<" ", "c">>, <<" ">>}

InitStore == Init /\ forest = PlainForest

NextStore ==
    \/ \E n \in StoreNames, ks \in StoreKeywordLists : AddCategory(n, ks)
    \/ \E n \in StoreCategories : RemoveCategory(n)
    \/ \E n \in StoreCategories, k \in StoreKeywords : AddKeyword(n, k)
    \/ \E n \in StoreCategories, k \in {ka, kc} : RemoveKeyword(n, k)

SpecStore == InitStore /\ [][NextStore]_vars

-----------------------------------------------------------------------------
(* The store, the script and the engine together, on short files *)

LiveFrames == {FileOf(<<tc>>), FileOf(<<tA, tc>>), FileOf(<<tA, td>>)}

NextLive ==
    \/ AddCategory(Coffee, <<kc>>)
    \/ AddCategory(Uncategorized, <<kd, kab>>)
    \/ \E n \in {Coffee, Uncategorized} : RemoveCategory(n)
    \/ AddKeyword(Shopping, <<"D">>)
    \/ RemoveKeyword(FoodDining, ka)
    \/ \E f \in LiveFrames : ProcessUpload(f)
    \/ Categorize
    \/ Rerun

SpecLive == Init /\ [][NextLive]_vars

-----------------------------------------------------------------------------
(* The classifier on its own *)

TrainingSets ==
    { [X |-> Rep(tA, 9), y |-> Rep(FoodDining, 9)],
      [X |-> Rep(tA, 10), y |-> Rep(FoodDining, 10)],
      [X |-> Rep(tA, 6) \o Rep(tb, 4), y |-> Rep(FoodDining, 6) \o Rep(Shopping, 4)],
      [X |-> Rep(tA, 5) \o Rep(tb, 5), y |-> Rep(FoodDining, 5) \o Rep(Shopping, 5)],
      [X |-> <<tc>> \o Rep(tA, 5) \o <<tc>> \o Rep(tb, 5),
       y |-> <<Travel>> \o Rep(FoodDining, 5) \o <<Travel>> \o Rep(Shopping, 5)],
      [X |-> Rep(tA, 10), y |-> Rep(FoodDining, 9)] }

NextClassifier ==
    \/ \E t \in TrainingSets : Train(t.X, t.y)
    \/ \E d \in SeqsUpTo(Texts, 2) : Predict(d)
    \/ ArtifactDamaged
    \/ Rerun

SpecClassifier == Init /\ [][NextClassifier]_vars

-----------------------------------------------------------------------------
(* The budget table on its own, across script runs *)

BudgetCategories == {FoodDining, Shopping, LongName}
\* amounts in tenths of a cent: 0, 10.004, 10.005 and 50
BudgetAmounts == {0, 10004, 10005, 50000}
BudgetPeriods == {"monthly", "yearly"}
\* spending in cents, of both signs, around the budgets
Spendings == {0 - 500, 0, 500, 1000, 1001, 7000}

InitBudget == Init /\ forest = PlainForest

NextBudget ==
    \/ \E c \in BudgetCategories, a \in BudgetAmounts, p \in BudgetPeriods :
          SetBudget(c, a, p)
    \/ \E c \in BudgetCategories : RemoveBudget(c)
    \/ \E c \in BudgetCategories, s \in Spendings : GetBudgetStatus(c, s)
    \/ Rerun

SpecBudget == InitBudget /\ [][NextBudget]_vars

-----------------------------------------------------------------------------
(* The stores while the disk and the database come and go *)

NextFaults ==
    \/ \E reachable \in BOOLEAN : Storage(reachable)
    \/ AddCategory(Coffee, <<kc>>)
    \/ RemoveCategory(Coffee)
    \/ AddKeyword(Shopping, kc)
    \/ RemoveKeyword(Shopping, kc)
    \/ SetBudget(FoodDining, 50000, "monthly")
    \/ RemoveBudget(FoodDining)
    \/ Train(Rep(tA, 10), Rep(FoodDining, 10))
    \/ ProcessUpload(FileOf(Rep(tA, 10) \o <<td>>))
    \/ Categorize

SpecFaults == InitBudget /\ [][NextFaults]_vars

-----------------------------------------------------------------------------
(* Files categorized again and again under one rule set *)

RepeatFrames ==
    { FileOf(Rep(tc, 5) \o Rep(tA, 5) \o Rep(tb, 5) \o <<td>>),
      FileOf(Rep(tA, 5) \o Rep(tb, 5) \o <<tc>>),
      FileOf(Rep(tA, 9) \o <<td>>),
      FileOf(<<tA, td>>) }

NextRepeat ==
    \/ \E f \in RepeatFrames : ProcessUpload(f)
    \/ Categorize
    \/ AddCategory(Uncategorized, <<kd, kab>>)
    \/ Rerun

SpecRepeat == Init /\ [][NextRepeat]_vars

-----------------------------------------------------------------------------
(* Vocabulary of the properties *)

\* the categories of a mapping that have a keyword occurring in the lower-cased text
Matching(categories, description) ==
    {i \in 1..Len(categories) :
        \E k \in 1..Len(categories[i].keywords) :
            Contains(Lower(description), categories[i].keywords[k])}

LastOf(S) == CHOOSE i \in S : \A j \in S : j <= i

\* the category a row has once the rules have been applied
AfterRules(categories, row) ==
    IF Matching(categories, row.Description) = {}
    THEN row.Category
    ELSE categories[LastOf(Matching(categories, row.Description))].name

\* the rows of the incoming frame by what the engine's rules make of them
CategorizedAfterRules ==
    {r \in 1..Len(df) : AfterRules(dpCategories, df[r]) # Uncategorized}
UncategorizedAfterRules == (1..Len(df)) \ CategorizedAfterRules

\* the training examples train keeps: rows whose label has at least 5 rows
QualifyingAfterRules ==
    {r \in CategorizedAfterRules :
        Cardinality({q \in CategorizedAfterRules :
            AfterRules(dpCategories, df[q]) = AfterRules(dpCategories, df[r])})
        >= MinSamplesPerCategory}

CategorizeRan == last'.op = "categorize_transactions"

-----------------------------------------------------------------------------
(* C1.  A transaction whose lower-cased description contains a keyword of   *)
(* exactly one category of the rule set comes back from                     *)
(* categorize_transactions with that category, whatever it was before.      *)
C1_KeywordOfOneCategory ==
    [][CategorizeRan =>
        \A r \in 1..Len(df) : \A i \in 1..Len(dpCategories) :
            Matching(dpCategories, df[r].Description) = {i}
                => df'[r].Category = dpCategories[i].name]_vars

(* C2.  A description that matches keywords of two or more categories gets  *)
(* the matching category that comes last in the mapping's iteration order;  *)
(* the result depends on the rule set and the description alone.            *)
C2_LastMatchWins ==
    [][CategorizeRan =>
        \A r \in 1..Len(df) :
            LET m == Matching(dpCategories, df[r].Description)
            IN  Cardinality(m) >= 2
                    => df'[r].Category = dpCategories[LastOf(m)].name]_vars

(* C3.  With fewer than 10 rows categorized after rule matching, the call   *)
(* neither trains nor queries the classifier, and every row that is         *)
(* 'Uncategorized' after rule matching stays 'Uncategorized', also when a   *)
(* fitted model is at hand.                                                 *)
C3_ClassifierSkippedBelowTen ==
    [][(CategorizeRan /\ Cardinality(CategorizedAfterRules) < MinCategorizedRows) =>
        /\ last'.trainCalls = 0
        /\ last'.predictCalls = 0
        /\ model' = model
        /\ artifact' = artifact
        /\ \A r \in UncategorizedAfterRules : df'[r].Category = Uncategorized]_vars

C3_Witness ==
    /\ last.op = "categorize_transactions"
    /\ last.trainCalls = 0
    /\ last.predictCalls = 0
    /\ model.fitted
    /\ \E r \in 1..Len(df) : df[r].Category = Uncategorized
    /\ Cardinality({r \in 1..Len(df) : df[r].Category # Uncategorized})
           = MinCategorizedRows - 1

(* C4.  With at least 10 rows categorized after rule matching, the i-th row *)
(* that is 'Uncategorized' after rule matching is the i-th text sent to the *)
(* classifier and gets the i-th predicted label when the i-th confidence is *)
(* strictly above 0.7 and 'Other' otherwise; no row of the result is        *)
(* 'Uncategorized'.                                                         *)
C4_PredictionsApplied ==
    [][(CategorizeRan /\ Cardinality(CategorizedAfterRules) >= MinCategorizedRows) =>
        /\ Len(last'.texts) = Cardinality(UncategorizedAfterRules)
        /\ Len(last'.labels) = Len(last'.texts)
        /\ Len(last'.probas) = Len(last'.texts)
        /\ \A r \in UncategorizedAfterRules :
              LET i == Place(UncategorizedAfterRules, r)
              IN  /\ last'.texts[i] = df[r].Description
                  /\ df'[r].Category =
                        IF last'.probas[i] > ConfidenceThreshold
                        THEN last'.labels[i] ELSE Other
        /\ \A r \in 1..Len(df') : df'[r].Category # Uncategorized]_vars

C4_Witness ==
    /\ last.op = "categorize_transactions"
    /\ last.predictCalls = 2
    /\ Len(last.texts) >= 2
    /\ \E i \in 1..Len(last.probas) : last.probas[i] = ConfidenceThreshold
    /\ \E i \in 1..Len(last.probas) :
          /\ last.probas[i] > ConfidenceThreshold
          /\ \E r \in 1..Len(df) :
                df[r].Description = last.texts[i] /\ df[r].Category = last.labels[i]
    /\ \E r \in 1..Len(df) : df[r].Category = Other

(* C5 as written.  When the call hands train fewer than 10 qualifying       *)
(* examples, the fitted state is unchanged and every row that no rule       *)
(* matched is 'Uncategorized' in the result.                                *)
C5_UnmatchedStayUncategorized ==
    [][(/\ CategorizeRan
        /\ last'.trainCalls = 1
        /\ Cardinality(QualifyingAfterRules) < MinTrainingSamples) =>
        /\ model' = model
        /\ \A r \in 1..Len(df) :
              Matching(dpCategories, df[r].Description) = {}
                  => df'[r].Category = Uncategorized]_vars

(* C5 amended.  When the call hands train fewer than 10 qualifying          *)
(* examples, train fails and the fitted state and the artifact are          *)
(* unchanged; every row that no rule matched and that came in               *)
(* 'Uncategorized' gets 'Other', unless the model fitted earlier predicts a *)
(* label for it with confidence above 0.7, which it then gets.              *)
C5_FailedTrainDegradesToOther ==
    [][(/\ CategorizeRan
        /\ last'.trainCalls = 1
        /\ Cardinality(QualifyingAfterRules) < MinTrainingSamples) =>
        /\ ~last'.trainOk
        /\ model' = model
        /\ artifact' = artifact
        /\ \A r \in 1..Len(df) :
              (/\ Matching(dpCategories, df[r].Description) = {}
               /\ df[r].Category = Uncategorized)
              => df'[r].Category =
                    IF /\ model.fitted
                       /\ predict_proba(model, <<df[r].Description>>)[1]
                              > ConfidenceThreshold
                    THEN predict(model, <<df[r].Description>>)[1]
                    ELSE Other]_vars

C5_Witness ==
    /\ last.op = "categorize_transactions"
    /\ last.trainCalls = 1
    /\ ~last.trainOk
    /\ model.fitted
    /\ \E i \in 1..Len(last.probas) :
          /\ last.probas[i] > ConfidenceThreshold
          /\ \E r \in 1..Len(df) :
                df[r].Description = last.texts[i] /\ df[r].Category = last.labels[i]

(* C6.  train drops every label with fewer than 5 examples; with fewer than *)
(* 10 examples left it fails and leaves the fitted state and the artifact   *)
(* as they were; with 10 or more it fits on exactly the examples left,      *)
(* persists the fitted model and succeeds.                                  *)
C6_TrainFiltersThenFits ==
    [][(last'.op = "train" /\ Len(last'.texts) = Len(last'.labels)) =>
        LET y == last'.labels
            kept == {i \in 1..Len(y) :
                        Cardinality({j \in 1..Len(y) : y[j] = y[i]})
                            >= MinSamplesPerCategory}
        IN  IF Cardinality(kept) < MinTrainingSamples
            THEN ~last'.ok /\ model' = model /\ artifact' = artifact
            ELSE /\ last'.ok
                 /\ model'.fitted
                 /\ Len(model'.X) = Cardinality(kept)
                 /\ Len(model'.y) = Cardinality(kept)
                 /\ \A i \in kept :
                       /\ model'.X[Place(kept, i)] = last'.texts[i]
                       /\ model'.y[Place(kept, i)] = y[i]
                 /\ artifact' = [exists |-> TRUE, pipeline |-> model']]_vars

C6_Witness ==
    /\ last.op = "train"
    /\ last.ok
    /\ model.fitted
    /\ Len(model.X) >= MinTrainingSamples
    /\ Len(model.X) < Len(last.texts)
    /\ artifact.exists

(* C7.  On a classifier that was never trained successfully and loaded no   *)
(* artifact, predict answers 'Other' and predict_proba 0.0 for every input, *)
(* one answer per input, also after failed train calls.                     *)
C7_UntrainedPredictsOther ==
    [][(last'.op = "predict" /\ ~artifact.exists) =>
        /\ Len(last'.labels) = Len(last'.texts)
        /\ Len(last'.probas) = Len(last'.texts)
        /\ \A i \in 1..Len(last'.texts) :
              last'.labels[i] = Other /\ last'.probas[i] = 0]_vars

C7_Witness ==
    /\ last.op = "predict"
    /\ ~artifact.exists
    /\ Len(last.texts) = 2
    /\ last.labels = <<Other, Other>>
    /\ last.probas = <<0, 0>>

(* C8.  A categorize call matches against the category store's mapping as   *)
(* it is at the time of the call: a row whose description contains a        *)
(* keyword now in the store gets that keyword's category, and a row that    *)
(* matches nothing in the store keeps its category.                         *)
C8_EngineReadsLiveRules ==
    [][CategorizeRan =>
        \A r \in 1..Len(df) :
            LET m == Matching(cmCategories, df[r].Description)
            IN  df'[r].Category =
                    IF m = {} THEN df[r].Category
                    ELSE cmCategories[LastOf(m)].name]_vars

(* C9.  remove_category on a default name fails and changes nothing, so a   *)
(* default category in the mapping stays in it; remove_category on a        *)
(* present name that is not a default succeeds and the name is gone from    *)
(* get_all_categories().                                                    *)
C9_DefaultsCannotBeRemoved ==
    [][/\ (last'.op = "remove_category" /\ last'.cat \in default_categories)
            => (~last'.ok /\ cmCategories' = cmCategories /\ document' = document)
       /\ \A n \in default_categories :
            HasKey(cmCategories, n) => HasKey(cmCategories', n)
       /\ (/\ last'.op = "remove_category"
           /\ last'.cat \notin default_categories
           /\ HasKey(cmCategories, last'.cat))
            => (last'.ok /\ ~InList(last'.cat, get_all_categories'))]_vars

C9_Witness ==
    /\ last.op = "remove_category"
    /\ last.ok
    /\ last.cat = Coffee
    /\ ~InList(Coffee, get_all_categories)
    /\ InList(FoodDining, get_all_categories)

(* C10.  In every state of the store every keyword list holds lower-case    *)
(* strings only and holds no keyword twice.                                 *)
C10_KeywordsLowercaseUnique ==
    \A c \in 1..Len(cmCategories) :
        LET ks == cmCategories[c].keywords
        IN  \A i \in 1..Len(ks) :
                /\ Lower(ks[i]) = ks[i]
                /\ \A j \in 1..Len(ks) : ks[j] = ks[i] => j = i

(* C11.  A category-store mutation called with an invalid argument returns  *)
(* failure without raising and leaves the mapping unchanged: add_category   *)
(* with a blank name, a name longer than 50 characters, an existing name or *)
(* a blank keyword; add_keyword with a blank keyword or an unknown          *)
(* category; remove_category on an unknown category; remove_keyword with an *)
(* unknown category or keyword.  So no category of the mapping has a blank  *)
(* name, a name longer than 50 characters or a blank keyword.               *)
C11_InvalidArgumentsRejected ==
    [][LET op == last'.op
           cat == last'.cat
           kw == last'.kw
           Blank(t) == Strip(t) = <<>>
           known == HasKey(cmCategories, cat)
           invalid ==
               \/ /\ op = "add_category"
                  /\ \/ Blank(cat)
                     \/ Len(cat) > MaxNameLen
                     \/ known
                     \/ \E i \in 1..Len(kw) : Blank(kw[i])
               \/ op = "add_keyword" /\ (Blank(kw) \/ ~known)
               \/ op = "remove_category" /\ ~known
               \/ /\ op = "remove_keyword"
                  /\ (~known \/ ~InList(kw, Lookup(cmCategories, cat)))
       IN  /\ invalid => (/\ ~last'.ok
                          /\ ~last'.raised
                          /\ cmCategories' = cmCategories)
           /\ \A c \in 1..Len(cmCategories') :
                 /\ ~Blank(cmCategories'[c].name)
                 /\ Len(cmCategories'[c].name) <= MaxNameLen
                 /\ \A k \in 1..Len(cmCategories'[c].keywords) :
                       ~Blank(cmCategories'[c].keywords[k])]_vars

(* C12.  After a category-store operation that returns success the          *)
(* persisted document holds the in-memory mapping; an operation that        *)
(* returns failure changes neither; so after every operation the document   *)
(* and the mapping agree.                                                   *)
C12_DocumentFollowsMapping ==
    [][last'.op \in {"add_category", "remove_category", "add_keyword", "remove_keyword"}
        => /\ last'.ok => (document'.intact /\ document'.categories = cmCategories')
           /\ ~last'.ok => (cmCategories' = cmCategories /\ document' = document)
           /\ document'.intact
           /\ document'.categories = cmCategories']_vars

C12_Witness ==
    /\ last.op = "remove_keyword"
    /\ last.ok
    /\ HasKey(cmCategories, Coffee)
    /\ Lookup(cmCategories, FoodDining) = <<>>
    /\ document.categories = cmCategories

(* C13.  When the durable store cannot be written, a store-mutating         *)
(* operation (category add/remove, keyword add/remove, budget set/remove,   *)
(* train) returns failure without raising and the in-memory state of its    *)
(* store is as before; categorize_transactions does not raise.              *)
C13_WriteFaultsReturnFailure ==
    [][~writable =>
        /\ last'.op \in {"add_category", "remove_category", "add_keyword",
                         "remove_keyword"}
              => (~last'.raised /\ ~last'.ok /\ cmCategories' = cmCategories)
        /\ last'.op \in {"set_budget", "remove_budget"}
              => (~last'.raised /\ ~last'.ok)
        /\ last'.op = "train"
              => (~last'.raised /\ ~last'.ok /\ model' = model)
        /\ last'.op = "categorize_transactions" => ~last'.raised]_vars

(* C14.  get_budget_status(cat, S) without a budget for cat answers         *)
(* has_budget false, budget_amount 0, remaining 0 and percentage_used 100   *)
(* if S > 0 else 0; with a budget B it answers has_budget true,             *)
(* budget_amount B, spent S, remaining B - S and percentage_used            *)
(* min(S/B*100, 100), 100 when B = 0.  The table is not changed.            *)
C14_BudgetStatus ==
    [][last'.op = "get_budget_status" =>
        LET S == last'.amount
            st == last'.status
            p == st.percentage_used
            rows == {i \in 1..Len(budgets) : budgets[i].category = last'.cat}
        IN  /\ budgets' = budgets
            /\ p.den > 0
            /\ IF rows = {}
               THEN /\ ~st.has_budget
                    /\ st.budget_amount = 0
                    /\ st.remaining = 0
                    /\ p.num = (IF S > 0 THEN 100 ELSE 0) * p.den
               ELSE \A i \in rows :
                      LET B == budgets[i].amount
                      IN  /\ st.has_budget
                          /\ st.budget_amount = B
                          /\ st.spent = S
                          /\ st.remaining = B - S
                          /\ IF B = 0 \/ S >= B
                             THEN p.num = 100 * p.den
                             ELSE p.num * B = S * 100 * p.den]_vars

C14_Witness ==
    /\ last.op = "get_budget_status"
    /\ last.status.has_budget
    /\ last.status.budget_amount = 1001
    /\ last.status.spent = 500
    /\ last.status.remaining = 501
    /\ last.status.percentage_used.num * 1001 = 50000 * last.status.percentage_used.den

(* C15.  The budget table holds at most one budget per category; set_budget *)
(* creates the budget or replaces amount and period of the existing one; a  *)
(* budget that was set stays retrievable by get_budget and get_all_budgets  *)
(* through every set_budget, remove_budget and construction of a            *)
(* BudgetManager until remove_budget is called for its category;            *)
(* remove_budget on a category without a budget fails and changes nothing.  *)
C15_BudgetsStayUntilRemoved ==
    [][/\ \A i, j \in 1..Len(budgets') :
             budgets'[i].category = budgets'[j].category => i = j
       /\ (last'.op = "set_budget" /\ last'.ok)
             => LET b == get_budget(budgets', last'.cat)
                IN  /\ b.found
                    /\ b.period = last'.period
                    /\ b.amount * 10 - last'.amount \in (0 - 5)..5
       /\ \A i \in 1..Len(budgets) :
             LET c == budgets[i].category
             IN  ~(last'.op = "remove_budget" /\ last'.cat = c)
                    => /\ get_budget(budgets', c).found
                       /\ \E k \in 1..Len(get_all_budgets(budgets')) :
                             get_all_budgets(budgets')[k].category = c
                       /\ ~(last'.op = "set_budget" /\ last'.cat = c)
                             => get_budget(budgets', c) = get_budget(budgets, c)
       /\ (last'.op = "remove_budget" /\ ~HasBudget(budgets, last'.cat))
             => (~last'.ok /\ budgets' = budgets)]_vars

(* C16.  categorize_transactions leaves the frame it is given as it was,    *)
(* and returns as many rows in the same order with Date, Description and    *)
(* Amount of every row unchanged.                                           *)
C16_CategorizeLeavesInputAlone ==
    [][CategorizeRan =>
        /\ last'.untouched
        /\ Len(df') = Len(df)
        /\ \A r \in 1..Len(df) :
              /\ df'[r].Date = df[r].Date
              /\ df'[r].Description = df[r].Description
              /\ df'[r].Amount = df[r].Amount]_vars

C16_Witness ==
    /\ last.op = "categorize_transactions"
    /\ last.untouched
    /\ last.predictCalls = 2
    /\ Len(df) > MinCategorizedRows
    /\ \A r \in 1..Len(df) : df[r].Category # Uncategorized /\ df[r].Date = r
    /\ df[2].Amount.nan
    /\ df[1].Amount.value < 0

(* C17.  A new classifier instance that loads the artifact persisted by a   *)
(* successful train answers every input with the label and the confidence   *)
(* of the instance that trained; when the artifact is missing or does not   *)
(* load, the new instance is untrained and answers ('Other', 0.0).          *)
C17_ReloadReproducesPredictions ==
    [][last'.op = "rerun" =>
        \A d \in Texts :
            IF artifact.exists /\ artifact # CorruptArtifact
            THEN model.fitted
                   => /\ model'.fitted
                      /\ predict(model', <<d>>) = predict(model, <<d>>)
                      /\ predict_proba(model', <<d>>) = predict_proba(model, <<d>>)
            ELSE /\ ~model'.fitted
                 /\ predict(model', <<d>>) = <<Other>>
                 /\ predict_proba(model', <<d>>) = <<0>>]_vars

C17_Witness ==
    /\ last.op = "rerun"
    /\ model.fitted
    /\ artifact = [exists |-> TRUE, pipeline |-> model]
    /\ Len(Classes(model.y, 1)) = 2

(* C18.  With the rule set unchanged, categorizing the result of a          *)
(* categorize call again gives every row the same Category.                 *)
C18_CategorizeIdempotent ==
    [][(CategorizeRan /\ last.op = "categorize_transactions")
        => Categories(df') = Categories(df)]_vars

(* C19.  A row that comes in with a category other than 'Uncategorized' and *)
(* matches no rule keeps its category and is not among the texts sent to    *)
(* the classifier; a row that matches a rule gets the rule's category,      *)
(* whatever it came in with.                                                *)
C19_NeverResets ==
    [][CategorizeRan =>
        /\ Len(last'.texts) <= Cardinality(UncategorizedAfterRules)
        /\ \A r \in 1..Len(df) :
              LET m == Matching(dpCategories, df[r].Description)
              IN  /\ (m = {} /\ df[r].Category # Uncategorized)
                        => df'[r].Category = df[r].Category
                  /\ m # {} => df'[r].Category = dpCategories[LastOf(m)].name]_vars

====
